---- MODULE Spec2Model ----
(***************************************************************************)
(* Model of the Dataframe_Inspector helpers (functions/validators.py,      *)
(* functions/summary.py, functions/dfInspector.py).                        *)
(*                                                                         *)
(* Every helper is a function of its arguments.  The state holds the       *)
(* object a caller passes (obj), the outcome of the latest call (last) and *)
(* the outcome of the call before it when both are outlier_summary calls   *)
(* (prev).  An outcome records the error class the call ended in ("none"   *)
(* when it returned), what it had printed/displayed up to that point, what *)
(* it had logged, and the value it returned.                               *)
(*                                                                         *)
(* Data.  A cell is <<>> (missing: NaN/None) or <<v>> (a value).  A column *)
(* is [name, dtype, vals]; dtype "number" stands for the int/float dtypes  *)
(* select_dtypes(include='number') selects, "object" for the text dtypes   *)
(* select_dtypes(include=["object","category"]) selects.  A DataFrame is   *)
(* [kind |-> "frame", nrows, cols], a Series is kind "series" with one     *)
(* column, and kind "other" is any Python object that is neither.          *)
(*                                                                         *)
(* Numbers.  Values are integers; quartiles are kept times 4 and the IQR   *)
(* multiplier is kept times MultDen, so every comparison the code makes in *)
(* floating point is made here exactly (all of the values involved are     *)
(* small dyadic rationals, which binary floating point represents          *)
(* exactly).  Percentages are kept in hundredths of a percent.             *)
(***************************************************************************)
EXTENDS Integers, Sequences, FiniteSets, TLC

VARIABLES obj, last, prev

vars == <<obj, last, prev>>

\* ------------------------------------------------------------------ bounds

\* general objects (all operations)
MaxRows == 2
MaxCols == 2
MaxN == 2
\* tables of the duplicate / missing-value summaries
TabRows == 4
TabCols == 2
\* numeric columns of the outlier summary
NumRows == 4
MaxVal == 1
MaxMult == 3
\* text columns of the top-values summary
TextRows == 6
MaxTopN == 3

\* The multiplier m of outlier_summary is modelled as MultNum / MultDen.
MultDen == 2

\* ------------------------------------------------------------------ cells

None == <<>>

Some(v) == <<v>>

\* Series.isnull / DataFrame.isnull on one cell
isnull(c) == c = None

TextVals == {"a", "b", "c"}

\* Column names by position, and their lexicographic order (sort_values on
\* the "column" key compares names as strings).
NameAt == <<"k2", "k1", "k4", "k3">>

NameOrder == <<"k1", "k2", "k3", "k4">>

NameRank(nm) == CHOOSE i \in 1..Len(NameOrder) : NameOrder[i] = nm

Cells(dtype, numTop, texts) ==
    IF dtype = "number" THEN {None} \cup {Some(v) : v \in 0..numTop}
    ELSE {None} \cup {Some(v) : v \in texts}

\* column contents (dtype, vals) with r rows
ColumnContents(dtypes, r, numTop, texts) ==
    UNION {{[dtype |-> d, vals |-> v] : v \in [1..r -> Cells(d, numTop, texts)]} : d \in dtypes}

Frame(r, cs) ==
    [kind |-> "frame", nrows |-> r,
     cols |-> [i \in 1..Len(cs) |-> [name |-> NameAt[i], dtype |-> cs[i].dtype, vals |-> cs[i].vals]]]

Series(cc) ==
    [kind |-> "series", nrows |-> Len(cc.vals),
     cols |-> <<[name |-> NameAt[1], dtype |-> cc.dtype, vals |-> cc.vals]>>]

\* an int, a list, None, ...: neither a DataFrame nor a Series
Other == [kind |-> "other", nrows |-> 0, cols |-> <<>>]

OneColumn(dtype, name, vals) ==
    [kind |-> "frame", nrows |-> Len(vals),
     cols |-> <<[name |-> name, dtype |-> dtype, vals |-> vals]>>]

\* the two tables the documentation works through
ExampleX == OneColumn("number", "k1", <<Some(1), Some(2), Some(3), Some(4), Some(100)>>)

ExampleCat == OneColumn("object", "k1", <<Some("a"), Some("a"), Some("b"), Some("c")>>)

\* ---------------------------------------------------------------- outcomes

\* The outcome of one call: the exception class it raised ("none": it
\* returned), what it printed or displayed before that, the records it
\* logged, and the value it returned.
R(err, printed, log, value) ==
    [err |-> err, printed |-> printed, log |-> log, value |-> value]

Raise(err, log) == R(err, <<>>, log, None)

Return(printed, value) == R("none", printed, <<>>, value)

\* ------------------------------------------------------- validators.py

validate_dataframe_or_series(o) ==
    IF o.kind \notin {"frame", "series"} THEN "TypeError" ELSE "none"

validate_dataframe(o) ==
    IF o.kind # "frame" THEN "TypeError" ELSE "none"

\* An argument n is [int |-> whether it is a Python int, v |-> its value].
validate_positive_integer(n) ==
    IF ~n.int \/ n.v <= 0 THEN "ValueError" ELSE "none"

\* ------------------------------------------------------ pandas primitives

Min(a, b) == IF a < b THEN a ELSE b

\* the rows idx[1], idx[2], ... of a DataFrame or Series, in that order
take(df, idx) ==
    [kind |-> df.kind, nrows |-> Len(idx),
     cols |-> [j \in 1..Len(df.cols) |->
                 [name |-> df.cols[j].name, dtype |-> df.cols[j].dtype,
                  vals |-> [i \in 1..Len(idx) |-> df.cols[j].vals[idx[i]]]]]]

\* df.head(n) / df.tail(n) for n >= 0
df_head(df, n) == take(df, [i \in 1..Min(n, df.nrows) |-> i])

df_tail(df, n) ==
    take(df, [i \in 1..Min(n, df.nrows) |-> df.nrows - Min(n, df.nrows) + i])

\* number of missing cells of a column: isnull().sum()
null_count(col) == Cardinality({i \in 1..Len(col.vals) : isnull(col.vals[i])})

\* Series.nunique(): distinct non-missing values
nunique(col) ==
    Cardinality({col.vals[i] : i \in 1..Len(col.vals)} \ {None})

\* row i across all columns
Row(df, i) == [j \in 1..Len(df.cols) |-> df.cols[j].vals[i]]

\* duplicated(keep=False): every member of a group of equal rows is marked
duplicated_sum_keep_false(df) ==
    IF df.nrows = 0 \/ Len(df.cols) = 0 THEN 0
    ELSE Cardinality({i \in 1..df.nrows :
            \E j \in 1..df.nrows : j # i /\ Row(df, j) = Row(df, i)})

\* DataFrame.duplicated().sum(): rows equal (missing equal to missing) to
\* an earlier row; an empty frame (no rows or no columns) has none.
duplicated_sum(df) ==
    IF df.nrows = 0 \/ Len(df.cols) = 0 THEN 0
    ELSE Cardinality({i \in 1..df.nrows : \E j \in 1..(i - 1) : Row(df, j) = Row(df, i)})

\* sort_values(by=<one key>, ascending=False): pandas sorts one key with
\* kind="quicksort", which is not a stable sort, so the order among equal
\* keys is not determined; every key-descending order is a possible result.
\* key[i] is the sort key of s[i].
sort_values_descending(s, key) ==
    IF Len(s) = 0 THEN {<<>>}
    ELSE {[i \in 1..Len(s) |-> s[p[i]]] :
            p \in {q \in Permutations(1..Len(s)) :
                     \A i \in 1..(Len(s) - 1) : key[q[i]] >= key[q[i + 1]]}}

\* select_dtypes(include=...): the columns of the given dtypes, in order
RECURSIVE select_dtypes(_, _)
select_dtypes(cols, dtypes) ==
    IF Len(cols) = 0 THEN <<>>
    ELSE LET rest == select_dtypes(SubSeq(cols, 1, Len(cols) - 1), dtypes)
             c == cols[Len(cols)]
         IN IF c.dtype \in dtypes THEN Append(rest, c) ELSE rest

\* --------------------------------------------------------- summary.py

ArgLog == <<"error">>

head_info(df, n) ==
    IF validate_dataframe_or_series(df) # "none" THEN {Raise("TypeError", ArgLog)}
    ELSE IF validate_positive_integer(n) # "none" THEN {Raise("ValueError", ArgLog)}
    ELSE IF df.kind = "series"
         THEN {Return(<<df_head(df, n.v), "Type", "Missing values number", "The shape is">>, None)}
         ELSE {Return(<<df_head(df, n.v), "info">>, None)}

head(df, n) ==
    IF validate_dataframe_or_series(df) # "none" THEN {Raise("TypeError", ArgLog)}
    ELSE IF validate_positive_integer(n) # "none" THEN {Raise("ValueError", ArgLog)}
    ELSE {Return(<<>>, df_head(df, n.v))}

info(df) ==
    IF validate_dataframe(df) # "none" THEN {Raise("TypeError", ArgLog)}
    ELSE {Return(<<"info">>, None)}

\* df.sample(n=n): n distinct rows drawn at random; more than the frame
\* holds is a ValueError of pandas ("Cannot take a larger sample than
\* population when 'replace=False'").
sample_rows(df, n) ==
    IF validate_dataframe(df) # "none" THEN {Raise("TypeError", ArgLog)}
    ELSE IF validate_positive_integer(n) # "none" THEN {Raise("ValueError", ArgLog)}
    ELSE IF n.v > df.nrows THEN {Raise("ValueError", <<>>)}
    ELSE {Return(<<>>, take(df, idx)) :
            idx \in {s \in [1..n.v -> 1..df.nrows] :
                       \A i, j \in 1..n.v : s[i] = s[j] => i = j}}

tail(df, n) ==
    IF validate_dataframe_or_series(df) # "none" THEN {Raise("TypeError", ArgLog)}
    ELSE IF validate_positive_integer(n) # "none" THEN {Raise("ValueError", ArgLog)}
    ELSE {Return(<<>>, df_tail(df, n.v))}

\* DataFrame.describe(): the numeric columns, or every column when there is
\* no numeric one or include='all'; a frame without columns is a ValueError
\* of pandas.  Of the statistics only the count row is modelled.
df_describe(df, all) ==
    LET num == select_dtypes(df.cols, {"number"})
        sel == IF all \/ Len(num) = 0 THEN df.cols ELSE num
    IN IF Len(df.cols) = 0 THEN Raise("ValueError", <<>>)
       ELSE Return(<<>>, [i \in 1..Len(sel) |->
                [column |-> sel[i].name, count |-> Len(sel[i].vals) - null_count(sel[i])]])

describe(df, mode) ==
    IF validate_dataframe(df) # "none" THEN {Raise("TypeError", ArgLog)}
    ELSE IF mode \notin {"numerical", "full"} THEN {Raise("ValueError", ArgLog)}
    ELSE {df_describe(df, mode # "numerical")}

columns_overview(df) ==
    IF validate_dataframe(df) # "none" THEN {Raise("TypeError", ArgLog)}
    ELSE {Return(<<>>, v) :
            v \in sort_values_descending(
                    [i \in 1..Len(df.cols) |->
                       [column |-> df.cols[i].name, dtype |-> df.cols[i].dtype,
                        unique_values_count |-> nunique(df.cols[i])]],
                    [i \in 1..Len(df.cols) |-> nunique(df.cols[i])])}

\* shape_summary validates nothing: an object without .shape fails on the
\* attribute, a Series (shape (rows,)) on shape[1].
shape_summary(df) ==
    IF df.kind = "other" THEN {Raise("AttributeError", <<>>)}
    ELSE IF df.kind = "series" THEN {Raise("IndexError", <<>>)}
    ELSE LET nulls == [j \in 1..Len(df.cols) |-> null_count(df.cols[j])]
             Sum[k \in 0..Len(df.cols)] == IF k = 0 THEN 0 ELSE Sum[k - 1] + nulls[k]
         IN {Return(<<>>,
               [rows |-> df.nrows,
                columns |-> Len(df.cols),
                total_size |-> df.nrows * Len(df.cols),
                column_names |-> [j \in 1..Len(df.cols) |-> df.cols[j].name],
                missing_values_number |-> Sum[Len(df.cols)],
                duplicated_rows |-> duplicated_sum(df)])}

\* isnull().mean() * 100 of one column, as the fraction num / den; the mean
\* of no rows is NaN (den = 0).
missing_ratio(col) == [num |-> null_count(col) * 100, den |-> Len(col.vals)]

\* missing_summary keeping only the columns that have missing values
missing_summary_only_missing(df) ==
    IF df.kind # "frame" THEN {Raise("AttributeError", <<>>)}
    ELSE LET keep == SelectSeq(df.cols, LAMBDA c : null_count(c) > 0)
         IN {Return(<<>>,
               [j \in 1..Len(keep) |->
                  [ColumnName |-> keep[j].name,
                   MissingCount |-> null_count(keep[j]),
                   MissingRatio |-> missing_ratio(keep[j]),
                   DataType |-> keep[j].dtype]])}

\* missing_summary validates nothing either: isnull is missing on other
\* objects, .columns on a Series.  One row per column, in column order.
missing_summary(df) ==
    IF df.kind # "frame" THEN {Raise("AttributeError", <<>>)}
    ELSE {Return(<<>>,
            [j \in 1..Len(df.cols) |->
               [ColumnName |-> df.cols[j].name,
                MissingCount |-> null_count(df.cols[j]),
                MissingRatio |-> missing_ratio(df.cols[j]),
                DataType |-> df.cols[j].dtype]])}

\* The distinct non-missing values of a column in order of first appearance,
\* each with its number of occurrences (the hash table behind value_counts).
RECURSIVE first_appearance(_)
first_appearance(vals) ==
    IF Len(vals) = 0 THEN <<>>
    ELSE LET init == first_appearance(SubSeq(vals, 1, Len(vals) - 1))
             x == vals[Len(vals)]
         IN IF isnull(x) THEN init
            ELSE IF \E k \in 1..Len(init) : init[k].value = x[1]
                 THEN [k \in 1..Len(init) |->
                         IF init[k].value = x[1]
                         THEN [value |-> x[1], count |-> init[k].count + 1]
                         ELSE init[k]]
                 ELSE Append(init, [value |-> x[1], count |-> 1])

\* Series.value_counts(): missing values dropped, sorted by count descending
value_counts(vals) ==
    LET counts == first_appearance(vals)
    IN sort_values_descending(counts, [k \in 1..Len(counts) |-> counts[k].count])

\* round(count / rows * 100, 2), in hundredths of a percent.  (Python rounds
\* a tie to even; count * 10000 / rows has no tie for rows < 32.)
round_pct(count, rows) == (2 * count * 10000 + rows) \div (2 * rows)

\* summary_rows without the .head(top_n) cut
summary_rows_all(col, vc, top_n, rows) ==
    [k \in 1..Len(vc) |->
       [column |-> col.name, value |-> vc[k].value, count |-> vc[k].count,
        percentage |-> round_pct(vc[k].count, rows)]]

\* the rows the loop appends for one column, for one result of value_counts
summary_rows(col, vc, top_n, rows) ==
    [k \in 1..Min(top_n, Len(vc)) |->
       [column |-> col.name, value |-> vc[k].value, count |-> vc[k].count,
        percentage |-> round_pct(vc[k].count, rows)]]

\* the list `summary` after the loop over the text columns
RECURSIVE summary_lists(_, _, _)
summary_lists(cols, top_n, rows) ==
    IF Len(cols) = 0 THEN {<<>>}
    ELSE {pre \o summary_rows(cols[Len(cols)], vc, top_n, rows) :
            pre \in summary_lists(SubSeq(cols, 1, Len(cols) - 1), top_n, rows),
            vc \in value_counts(cols[Len(cols)].vals)}

\* sort_values(by=["column", "count"], ascending=[True, False]): several
\* keys are sorted with a stable lexsort; here an insertion sort that puts
\* each row behind every row that does not come after it.
ColumnCountBefore(a, b) ==
    \/ NameRank(a.column) < NameRank(b.column)
    \/ a.column = b.column /\ a.count > b.count

RECURSIVE sort_by_column_count(_)
sort_by_column_count(s) ==
    IF Len(s) = 0 THEN <<>>
    ELSE LET init == sort_by_column_count(SubSeq(s, 1, Len(s) - 1))
             x == s[Len(s)]
             keep == Cardinality({k \in 1..Len(init) : ~ColumnCountBefore(x, init[k])})
         IN SubSeq(init, 1, keep) \o <<x>> \o SubSeq(init, keep + 1, Len(init))

\* An empty `summary` makes a frame without columns, and sorting it by
\* "column" is a KeyError.
top_values_summary(df, top_n) ==
    IF validate_dataframe(df) # "none" THEN {Raise("TypeError", ArgLog)}
    ELSE IF validate_positive_integer(top_n) # "none" THEN {Raise("ValueError", ArgLog)}
    ELSE {IF Len(summary) = 0 THEN Raise("KeyError", <<>>)
          ELSE Return(<<>>, sort_by_column_count(summary)) :
            summary \in summary_lists(select_dtypes(df.cols, {"object"}), top_n.v, df.nrows)}

duplicate_summary(df) ==
    IF validate_dataframe(df) # "none" THEN {Raise("TypeError", ArgLog)}
    ELSE {Return(<<>>, duplicated_sum(df))}

\* the non-missing values of a column, in row order
RECURSIVE dropna(_)
dropna(vals) ==
    IF Len(vals) = 0 THEN <<>>
    ELSE LET init == dropna(SubSeq(vals, 1, Len(vals) - 1))
             x == vals[Len(vals)]
         IN IF isnull(x) THEN init ELSE Append(init, x[1])

\* Series.quantile(q / 4), times 4: missing values are dropped, the rest is
\* sorted, and the value at position (n - 1) * q / 4 is interpolated
\* linearly between its two neighbours.  None is NaN (no value at all).
quantile4(vals, q) ==
    LET s == SortSeq(dropna(vals), LAMBDA a, b : a < b)
        n == Len(s)
        k == ((n - 1) * q) \div 4
        r == ((n - 1) * q) % 4
    IN IF n = 0 THEN None
       ELSE IF r = 0 THEN Some(4 * s[k + 1])
       ELSE Some(4 * s[k + 1] + r * (s[k + 2] - s[k + 1]))

\* outlier_count with the upper fence on the wrong side of Q3
outlier_count_upper_minus(col, m) ==
    LET q1 == quantile4(col.vals, 1)
        q3 == quantile4(col.vals, 3)
        iqr == q3[1] - q1[1]
        lower == MultDen * q1[1] - m * iqr
        upper == MultDen * q3[1] - m * iqr
    IN IF q1 = None THEN 0
       ELSE Cardinality({i \in 1..Len(col.vals) :
                /\ ~isnull(col.vals[i])
                /\ \/ 4 * MultDen * col.vals[i][1] < lower
                   \/ 4 * MultDen * col.vals[i][1] > upper})

\* outlier_count that also counts the values on a fence
outlier_count_inclusive(col, m) ==
    LET q1 == quantile4(col.vals, 1)
        q3 == quantile4(col.vals, 3)
        iqr == q3[1] - q1[1]
        lower == MultDen * q1[1] - m * iqr
        upper == MultDen * q3[1] + m * iqr
    IN IF q1 = None THEN 0
       ELSE Cardinality({i \in 1..Len(col.vals) :
                /\ ~isnull(col.vals[i])
                /\ \/ 4 * MultDen * col.vals[i][1] <= lower
                   \/ 4 * MultDen * col.vals[i][1] >= upper})

\* ((col < lower) | (col > upper)).sum() for the multiplier m / MultDen; all
\* terms are scaled by 4 * MultDen.  A comparison with NaN (a missing cell,
\* or the fences of a column without values) is False.
outlier_count(col, m) ==
    LET q1 == quantile4(col.vals, 1)
        q3 == quantile4(col.vals, 3)
        iqr == q3[1] - q1[1]
        lower == MultDen * q1[1] - m * iqr
        upper == MultDen * q3[1] + m * iqr
    IN IF q1 = None THEN 0
       ELSE Cardinality({i \in 1..Len(col.vals) :
                /\ ~isnull(col.vals[i])
                /\ \/ 4 * MultDen * col.vals[i][1] < lower
                   \/ 4 * MultDen * col.vals[i][1] > upper})

\* outlier_summary validates neither the frame nor the multiplier; only a
\* DataFrame has select_dtypes.
outlier_summary(df, m) ==
    IF df.kind # "frame" THEN {Raise("AttributeError", <<>>)}
    ELSE LET num == select_dtypes(df.cols, {"number"})
         IN {Return(<<>>, v) :
               v \in sort_values_descending(
                       [j \in 1..Len(num) |->
                          [column |-> num[j].name, outlier_count |-> outlier_count(num[j], m)]],
                       [j \in 1..Len(num) |-> outlier_count(num[j], m)])}

\* Defaults of the calls full_summary makes: top_values_summary(df) takes
\* top_n = 3, outlier_summary(df) takes 1.5 (DefaultMult / MultDen).
DefaultTopN == 3

DefaultMult == 3

\* the error of a call whose error does not depend on how ties are ordered
ErrOf(outcomes) == (CHOOSE o \in outcomes : TRUE).err

LogOf(outcomes) == (CHOOSE o \in outcomes : TRUE).log

\* full_summary runs its sections in order; the first one that raises ends
\* the call, with everything before it already printed.  n is not used.
\* sections[i] = <<header, error of the section's call, its log>>
full_summary_sections(df, describe_mode) ==
    << <<"---Head---", IF df.kind = "other" THEN "AttributeError" ELSE "none", <<>> >>,
       <<"---Info---", "none", <<>> >>,
       <<"---Descriptive Stats---", ErrOf(describe(df, describe_mode)),
                                    LogOf(describe(df, describe_mode))>>,
       <<"---Column Overview---", ErrOf(columns_overview(df)), <<>> >>,
       <<"---Shape Summary---", ErrOf(shape_summary(df)), <<>> >>,
       <<"---Missing Summary---", ErrOf(missing_summary(df)), <<>> >>,
       <<"---Top Values Summary---",
           ErrOf(top_values_summary(df, [int |-> TRUE, v |-> DefaultTopN])), <<>> >>,
       <<"---Duplicate Rows---", ErrOf(duplicate_summary(df)), <<>> >>,
       <<"---Outliers Summary---", ErrOf(outlier_summary(df, DefaultMult)), <<>> >> >>

full_summary(df, n, describe_mode) ==
    LET sec == full_summary_sections(df, describe_mode)
        bad == {i \in 1..Len(sec) : sec[i][2] # "none"}
        stop == IF bad = {} THEN Len(sec) + 1
                ELSE CHOOSE i \in bad : \A j \in bad : i <= j
        \* a section prints its header, then displays its result
        out == [k \in 1..(2 * (stop - 1)) |->
                  IF k % 2 = 1 THEN sec[(k + 1) \div 2][1] ELSE "display"]
    IN IF bad = {} THEN {Return(out, None)}
       ELSE {R(sec[stop][2], Append(out, sec[stop][1]), sec[stop][3], None)}

\* ------------------------------------------------------- dfInspector.py

head_info_dfInspector(df, n) ==
    IF df.kind # "frame" THEN {Raise("TypeError", ArgLog)}
    ELSE IF ~n.int \/ n.v < 0 THEN {Raise("ValueError", ArgLog)}
    ELSE {R("none", <<df_head(df, n.v), "info">>, <<"info">>, None)}

\* ------------------------------------------------------------- inputs

\* what a caller may pass for n / top_n: the ints -1 .. top, and something
\* that is not an int (2.5, "3", None)
NArgs(top) == {[int |-> TRUE, v |-> k] : k \in -1..top} \cup {[int |-> FALSE, v |-> 0]}

Modes == {"numerical", "full", "all"}

\* multipliers -1/MultDen .. MaxMult/MultDen
Mults == -1..MaxMult

\* obj is a frame of up to c columns and up to r rows; a frame without
\* columns has no rows (rows are implicit in the columns)
IsFrameUpTo(dtypes, c, r, numTop, texts) ==
    \E cc \in 0..c : \E rr \in (IF cc = 0 THEN {0} ELSE 0..r) :
       \E cs \in [1..cc -> ColumnContents(dtypes, rr, numTop, texts)] :
          obj = Frame(rr, cs)

\* a table whose columns are alternately numeric and text, every cell either
\* missing (miss) or one fixed value
AlternatingTable(c, r, miss) ==
    Frame(r, [j \in 1..c |->
                [dtype |-> IF j % 2 = 1 THEN "number" ELSE "object",
                 vals |-> [i \in 1..r |->
                             IF miss[j][i] THEN None
                             ELSE IF j % 2 = 1 THEN Some(0) ELSE Some("a")]]])

\* a text column, a numeric column with a missing value and an outlier, and
\* the numeric column of ExampleX, side by side
ExampleMixed ==
    [kind |-> "frame", nrows |-> 5,
     cols |-> <<[name |-> "k2", dtype |-> "object",
                 vals |-> <<Some("a"), Some("a"), Some("b"), Some("c"), None>>],
                [name |-> "k3", dtype |-> "number",
                 vals |-> <<Some(0), Some(0), None, Some(0), Some(2)>>],
                [name |-> "k1", dtype |-> "number",
                 vals |-> <<Some(1), Some(2), Some(3), Some(4), Some(100)>>]>>]

\* everything the general specification passes as first argument
IsObject ==
    \/ obj \in {Other, ExampleX, ExampleCat}
    \/ \E r \in 0..MaxRows : \E cc \in ColumnContents({"number", "object"}, r, 0, {"a"}) :
          obj = Series(cc)
    \/ IsFrameUpTo({"number", "object"}, MaxCols, MaxRows, 0, {"a"})

IsTableObject ==
    \E c \in 0..TabCols : \E r \in (IF c = 0 THEN {0} ELSE 0..TabRows) :
       \E miss \in [1..c -> [1..r -> BOOLEAN]] : obj = AlternatingTable(c, r, miss)

\* one numeric column of up to NumRows cells, missing or in 0..MaxVal
IsNumericObject ==
    \/ obj \in {ExampleX, ExampleMixed}
    \/ \E r \in 0..NumRows : \E v \in [1..r -> Cells("number", MaxVal, {})] :
          obj = OneColumn("number", NameAt[1], v)

\* text columns: any values up to TextRows rows, with missing cells up to
\* MaxRows + 1 rows; and small frames of several text columns
IsTextObject ==
    \/ obj \in {ExampleCat, ExampleMixed}
    \/ \E r \in 0..TextRows : \E v \in [1..r -> {Some(t) : t \in TextVals}] :
          obj = OneColumn("object", NameAt[1], v)
    \/ \E r \in 0..(MaxRows + 1) : \E v \in [1..r -> Cells("object", 0, TextVals)] :
          obj = OneColumn("object", NameAt[1], v)
    \/ IsFrameUpTo({"object"}, MaxCols, MaxRows, 0, {"a"})

\* ------------------------------------------------------ the state machine

Args(n, mode, m) == [n |-> n, mode |-> mode, m |-> m]

Call(op, args, o) ==
    [op |-> op, args |-> args, err |-> o.err, printed |-> o.printed,
     log |-> o.log, value |-> o.value]

NoCall == Call("none", Args(None, None, None), Return(<<>>, None))

TypeOK ==
    /\ obj.kind \in {"other", "series", "frame"}
    /\ last.err \in {"none", "TypeError", "ValueError", "AttributeError", "IndexError", "KeyError"}

Init == IsObject /\ last = NoCall /\ prev = NoCall

InitTable == IsTableObject /\ last = NoCall /\ prev = NoCall

InitOutlier == IsNumericObject /\ last = NoCall /\ prev = NoCall

InitTop == IsTextObject /\ last = NoCall /\ prev = NoCall

\* one call op(obj, ...) whose possible outcomes are `outcomes`
Do(op, args, outcomes) ==
    /\ \E o \in outcomes : last' = Call(op, args, o)
    /\ prev' = NoCall
    /\ UNCHANGED obj

HeadInfoCall == \E n \in NArgs(MaxN) : Do("head_info", Args(n, None, None), head_info(obj, n))

HeadCall == \E n \in NArgs(MaxN) : Do("head", Args(n, None, None), head(obj, n))

InfoCall == Do("info", Args(None, None, None), info(obj))

SampleRowsCall == \E n \in NArgs(MaxN) : Do("sample_rows", Args(n, None, None), sample_rows(obj, n))

TailCall == \E n \in NArgs(MaxN) : Do("tail", Args(n, None, None), tail(obj, n))

DescribeCall == \E mode \in Modes : Do("describe", Args(None, mode, None), describe(obj, mode))

ColumnsOverviewCall == Do("columns_overview", Args(None, None, None), columns_overview(obj))

ShapeSummaryCall == Do("shape_summary", Args(None, None, None), shape_summary(obj))

MissingSummaryCall == Do("missing_summary", Args(None, None, None), missing_summary(obj))

TopValuesSummaryCall ==
    \E n \in NArgs(MaxTopN) : Do("top_values_summary", Args(n, None, None), top_values_summary(obj, n))

DuplicateSummaryCall == Do("duplicate_summary", Args(None, None, None), duplicate_summary(obj))

\* prev keeps the outlier_summary call made just before this one, if any
OutlierSummaryCall ==
    \E m \in Mults :
       /\ \E o \in outlier_summary(obj, m) :
             last' = Call("outlier_summary", Args(None, None, m), o)
       /\ prev' = IF last.op = "outlier_summary" THEN last ELSE NoCall
       /\ UNCHANGED obj

FullSummaryCall ==
    \E n \in NArgs(MaxN) : \E mode \in Modes :
       Do("full_summary", Args(n, mode, None), full_summary(obj, n, mode))

HeadInfoDfInspectorCall ==
    \E n \in NArgs(MaxN) :
       Do("dfInspector.head_info", Args(n, None, None), head_info_dfInspector(obj, n))

Next ==
    \/ HeadInfoCall
    \/ HeadCall
    \/ InfoCall
    \/ SampleRowsCall
    \/ TailCall
    \/ DescribeCall
    \/ ColumnsOverviewCall
    \/ ShapeSummaryCall
    \/ MissingSummaryCall
    \/ TopValuesSummaryCall
    \/ DuplicateSummaryCall
    \/ OutlierSummaryCall
    \/ FullSummaryCall
    \/ HeadInfoDfInspectorCall

NextTable == ShapeSummaryCall \/ MissingSummaryCall \/ DuplicateSummaryCall

NextOutlier == OutlierSummaryCall

NextTop == TopValuesSummaryCall

Spec == Init /\ [][Next]_vars

SpecTable == InitTable /\ [][NextTable]_vars

SpecOutlier == InitOutlier /\ [][NextOutlier]_vars

SpecTop == InitTop /\ [][NextTop]_vars

\* ------------------------------------------------------------ properties

SummaryOps ==
    {"head", "tail", "head_info", "info", "sample_rows", "describe",
     "columns_overview", "shape_summary", "missing_summary", "top_values_summary",
     "duplicate_summary", "outlier_summary", "full_summary"}

\* the operations documented to take a DataFrame or a Series
SeriesOps == {"head", "tail", "head_info"}

NOps == {"head", "tail", "head_info", "sample_rows", "dfInspector.head_info"}

\* o is what the operation op accepts as its first argument
Accepted(o, op) == o.kind = "frame" \/ (o.kind = "series" /\ op \in SeriesOps)

\* the arguments of the latest call are all in their documented domain
InDomain ==
    /\ last.op \in NOps \cup {"top_values_summary", "full_summary"}
          => last.args.n.int /\ last.args.n.v >= 1
    /\ last.op \in {"describe", "full_summary"} => last.args.mode \in {"numerical", "full"}
    /\ last.op = "outlier_summary" => last.args.m >= 0

\* C1: every public operation of the summary module, called with a first
\* argument that is not a table (nor a column, where a column is accepted),
\* fails with the type-mismatch error and with no other error.
C1_TypeMismatch ==
    (last.op \in SummaryOps /\ ~Accepted(obj, last.op)) => last.err = "TypeError"

\* C2: every operation rejects an out-of-domain n, top_n, multiplier or mode
\* (given an acceptable first argument) with the invalid-argument error.
C2_InvalidArgument ==
    (last.op # "none" /\ Accepted(obj, last.op) /\ ~InDomain) => last.err = "ValueError"

\* C3: a call that ends in a validation error (type mismatch or invalid
\* argument) has printed and displayed nothing before the error.
C3_AllOrNothing ==
    last.err \in {"TypeError", "ValueError"} => last.printed = <<>>

\* C9: type mismatch and invalid argument are the only errors: a call with
\* a table and in-domain arguments completes.
C9_Completes ==
    (last.op # "none" /\ obj.kind = "frame" /\ InDomain) => last.err = "none"

\* the number of missing cells of column j of obj, counted cell by cell
MissingIn(j) == Len(SelectSeq(obj.cols[j].vals, LAMBDA c : c = None))

\* a / b > c / d for fractions with positive denominators
FracGreater(x, y) == x.num * y.den > y.num * x.den

DistinctRows == {Row(obj, i) : i \in 1..obj.nrows}

\* C8: the duplicate count (duplicate_summary, and duplicated_rows of
\* shape_summary) is the row count minus the number of distinct rows, and
\* 0 when all rows are distinct.
C8_DuplicateCount ==
    /\ (last.op = "duplicate_summary" /\ obj.kind = "frame") =>
          /\ last.err = "none"
          /\ last.value = obj.nrows - Cardinality(DistinctRows)
          /\ Cardinality(DistinctRows) = obj.nrows => last.value = 0
    /\ (last.op = "shape_summary" /\ obj.kind = "frame") =>
          /\ last.err = "none"
          /\ last.value.duplicated_rows = obj.nrows - Cardinality(DistinctRows)
          /\ last.value.rows = obj.nrows

\* a table of three rows, two of them equal and holding a missing cell,
\* whose duplicate count is 1
C8_Witness ==
    /\ last.op = "duplicate_summary" /\ last.err = "none"
    /\ obj.kind = "frame" /\ obj.nrows = 3 /\ Len(obj.cols) = 2
    /\ Row(obj, 1) = Row(obj, 3) /\ Row(obj, 1) # Row(obj, 2)
    /\ Row(obj, 1)[1] = None
    /\ last.value = 1

\* the row of an outlier_summary result that is about the column named nm
RowOf(value, nm) == CHOOSE k \in 1..Len(value) : value[k].column = nm

\* the numeric columns of obj, by position
NumericPositions == {j \in 1..Len(obj.cols) : obj.cols[j].dtype = "number"}

\* C6: for a fixed table and numeric column the outlier count is
\* non-increasing in the multiplier: of two outlier_summary calls on the
\* same table, the one with the larger multiplier reports no more outliers.
C6_MonotoneInMultiplier ==
    (last.op = "outlier_summary" /\ prev.op = "outlier_summary"
       /\ last.err = "none" /\ prev.err = "none") =>
       \A j \in NumericPositions :
          LET a == prev.value[RowOf(prev.value, obj.cols[j].name)].outlier_count
              b == last.value[RowOf(last.value, obj.cols[j].name)].outlier_count
          IN /\ prev.args.m <= last.args.m => b <= a
             /\ last.args.m <= prev.args.m => a <= b

\* two calls on one table, the second with a larger multiplier and strictly
\* fewer outliers, but still some
C6_Witness ==
    /\ last.op = "outlier_summary" /\ prev.op = "outlier_summary"
    /\ prev.args.m < last.args.m
    /\ \E j \in NumericPositions :
          /\ prev.value[RowOf(prev.value, obj.cols[j].name)].outlier_count
               > last.value[RowOf(last.value, obj.cols[j].name)].outlier_count
          /\ last.value[RowOf(last.value, obj.cols[j].name)].outlier_count > 0

\* The definition the documentation gives, without sorting: the k-th
\* smallest of the non-missing values of column j.
Present(j) == {i \in 1..obj.nrows : obj.cols[j].vals[i] # None}

ValueAt(j, i) == obj.cols[j].vals[i][1]

OrderStatistic(j, k) ==
    CHOOSE v \in {ValueAt(j, i) : i \in Present(j)} :
       /\ Cardinality({i \in Present(j) : ValueAt(j, i) < v}) < k
       /\ Cardinality({i \in Present(j) : ValueAt(j, i) <= v}) >= k

\* 4 times the (q/4)-quantile by linear interpolation between closest ranks:
\* with h = (n - 1) * q / 4, a weighted mean of the ranks below and above h
Percentile4(j, q) ==
    LET n == Cardinality(Present(j))
        lo == ((n - 1) * q) \div 4
        w == (n - 1) * q - 4 * lo
    IN IF w = 0 THEN 4 * OrderStatistic(j, lo + 1)
       ELSE (4 - w) * OrderStatistic(j, lo + 1) + w * OrderStatistic(j, lo + 2)

\* value v of column j is below the lower or above the upper fence for the
\* multiplier m / MultDen (all terms times 4 * MultDen)
OutsideFences(j, v, m) ==
    LET q1 == Percentile4(j, 1)
        q3 == Percentile4(j, 3)
    IN \/ 4 * MultDen * v < MultDen * q1 - m * (q3 - q1)
       \/ 4 * MultDen * v > MultDen * q3 + m * (q3 - q1)

OnFence(j, v, m) ==
    LET q1 == Percentile4(j, 1)
        q3 == Percentile4(j, 3)
    IN \/ 4 * MultDen * v = MultDen * q1 - m * (q3 - q1)
       \/ 4 * MultDen * v = MultDen * q3 + m * (q3 - q1)

\* C7: for each numeric column, outlier_summary reports the number of
\* non-missing values strictly outside [Q1 - m*IQR, Q3 + m*IQR], Q1 and Q3
\* being the quartiles of the non-missing values by linear interpolation;
\* one row per numeric column and none for the others; and for
\* x = [1,2,3,4,100] with multiplier 1.5 the count is 1.
C7_OutlierCount ==
    (last.op = "outlier_summary" /\ obj.kind = "frame") =>
       /\ last.err = "none"
       /\ Len(last.value) = Cardinality(NumericPositions)
       /\ \A j \in NumericPositions :
             /\ \E k \in 1..Len(last.value) : last.value[k].column = obj.cols[j].name
             /\ last.value[RowOf(last.value, obj.cols[j].name)].outlier_count
                  = Cardinality({i \in Present(j) : OutsideFences(j, ValueAt(j, i), last.args.m)})
       /\ (obj = ExampleX /\ last.args.m = DefaultMult) =>
             last.value = <<[column |-> "k1", outlier_count |-> 1]>>

\* a column with a missing cell, a value exactly on a fence and a value
\* outside the fences, reported with count 1
C7_Witness ==
    /\ last.op = "outlier_summary" /\ last.err = "none"
    /\ obj.kind = "frame" /\ Len(obj.cols) = 1
    /\ \E i \in 1..obj.nrows : obj.cols[1].vals[i] = None
    /\ \E i \in Present(1) : OnFence(1, ValueAt(1, i), last.args.m)
    /\ \E i \in Present(1) : OutsideFences(1, ValueAt(1, i), last.args.m)
    /\ last.value[1].outlier_count = 1

\* the text columns of obj, by position
TextPositions == {j \in 1..Len(obj.cols) : obj.cols[j].dtype = "object"}

\* the rows of a top_values_summary result about column j, in result order
EntriesOf(value, j) == SelectSeq(value, LAMBDA e : e.column = obj.cols[j].name)

\* the sum of F over the elements of a sequence
SumOf(s, F(_)) ==
    LET Partial[k \in 0..Len(s)] == IF k = 0 THEN 0 ELSE Partial[k - 1] + F(s[k])
    IN Partial[Len(s)]

Occurrences(j, v) == Cardinality({i \in 1..obj.nrows : obj.cols[j].vals[i] = Some(v)})

TopValuesReturned ==
    last.op = "top_values_summary" /\ obj.kind = "frame" /\ last.err = "none"

FirstRow(j, v) ==
    CHOOSE i \in 1..obj.nrows :
       obj.cols[j].vals[i] = Some(v) /\ \A h \in 1..(i - 1) : obj.cols[j].vals[h] # Some(v)

\* v comes before w in column j's ranking: more occurrences, or as many and
\* an earlier first occurrence
RanksBefore(j, v, w) ==
    \/ Occurrences(j, v) > Occurrences(j, w)
    \/ Occurrences(j, v) = Occurrences(j, w) /\ FirstRow(j, v) < FirstRow(j, w)

DistinctValues(j) == {c[1] : c \in {obj.cols[j].vals[i] : i \in 1..obj.nrows} \ {None}}

====
